---- MODULE Spec2Model ----
(***************************************************************************)
(* Admission control of the chat proxy routes: the in-memory sliding       *)
(* window RateLimiter (lib/rate-limit), its wrappers checkRateLimit,       *)
(* rateLimiter and speedLimiter, and the two POST route handlers that      *)
(* apply them before forwarding a chat request to the upstream model.      *)
(*                                                                         *)
(* Time is counted in units of five minutes, so that the 15 minute window  *)
(* is 3 units long; the limit of 100 requests is scaled to 2.  Every       *)
(* comparison of the code (now - ts < WINDOW_SIZE, length >= MAX_REQUESTS) *)
(* is kept as written.  SpecRef runs the limiter with the constants of     *)
(* the source, unscaled; SpecBody serves one request with any body.        *)
(* SpecGates follows the requests through the admission stage only.        *)
(* Beside the routes, the module models the WorkflowCard component         *)
(* (SpecCard) and runMiddleware of lib/cors (SpecMw).                      *)
(***************************************************************************)
EXTENDS Integers, Sequences, FiniteSets, TLC

\* ---------------------------------------------------------------- bounds
MaxClock == 5        \* Date.now() is read in 0..MaxClock
MaxChecks == 4       \* direct calls of checkRateLimit that are recorded
MaxStepBacks == 1    \* times the wall clock is set back
NumReq == 3          \* POST requests in flight
MaxPostClock == 3    \* Date.now() is read in 0..MaxPostClock by the POST handlers
MaxMessages == 2     \* messages in the body of a request
MaxCallbacks == 2    \* invocations of the callback runMiddleware hands to fn

\* ------------------------------------------------------------- constants
WINDOW_SIZE == 3
MAX_REQUESTS == 2

\* The configuration as the source writes it, in milliseconds and requests;
\* the reference run (SpecRef) uses it unscaled.
WINDOW_SIZE_MS == 15 * 60 * 1000
MAX_REQUESTS_REF == 100
\* number of checks of the reference run
RefMaxChecks == 101

Req == 1..NumReq
None == 0
Routes == {"fetch", "sdk"}

\* ---------------------------------------------------------- request bodies
\* z.enum(['user', 'assistant', 'system'])
Roles == {"user", "assistant", "system"}
\* z.string().min(1).max(4000)
MIN_CONTENT == 1
MAX_CONTENT == 4000

\* A value of the `content` key: a string of some length, or not a string.
Content(len) == [string |-> TRUE, length |-> len]
NotAString == [string |-> FALSE, length |-> 0]

\* An element of `messages`; extra says that it carries a key the schema
\* does not name.
Message(rl, c) == [role |-> rl, content |-> c, extra |-> FALSE]

\* A body: text that is not JSON, JSON whose `messages` is not an array, or
\* JSON with an array of messages.
MalformedBody == [json |-> FALSE, array |-> FALSE, items |-> <<>>]
NoArrayBody == [json |-> TRUE, array |-> FALSE, items |-> <<>>]
BodyOf(items) == [json |-> TRUE, array |-> TRUE, items |-> items]
InvalidBody == BodyOf(<<Message("user", Content(MAX_CONTENT + 1))>>)
ValidBody == BodyOf(<<Message("user", Content(MIN_CONTENT))>>)

\* the bodies of the requests that are served concurrently
Bodies == {MalformedBody, InvalidBody, ValidBody}

\* the messages a single request is tried with: every role with every kind
\* of content at the ends of the allowed lengths, and two with an extra key
Messages ==
  {Message(rl, c) : rl \in Roles \cup {"tool"},
                    c \in {NotAString} \cup {Content(n) : n \in {MIN_CONTENT - 1, MIN_CONTENT,
                                                                   MAX_CONTENT, MAX_CONTENT + 1}}}
    \cup {[role |-> "user", content |-> Content(n), extra |-> TRUE] : n \in {MIN_CONTENT, MAX_CONTENT + 1}}
AllBodies ==
  {MalformedBody, NoArrayBody}
    \cup {BodyOf(items) : items \in UNION {[1..k -> Messages] : k \in 0..MaxMessages}}
NoError == [kind |-> "none", message |-> ""]

VARIABLES
  clock,          \* the value Date.now() returns
  stepBacks,      \* how often the wall clock has been set back
  timestamps,     \* limiter.timestamps
  log,            \* history: one record per completed direct call of checkRateLimit
  running,        \* the request whose synchronous segment holds the JS thread
  pc,             \* position of each POST handler
  route,          \* which of the two route handlers serves the request
  body,           \* what the request's body is
  now,            \* the local `now` of the handler's isRateLimited call
  limited,        \* the value isRateLimited returned to the handler
  gate,           \* state of the Promise.all of the two gates
  rateResolved,   \* times rateLimiter called resolve for the request
  speedResolved,  \* times speedLimiter called resolve for the request
  bodyRead,       \* req.json() has been called
  upstreamCalls,  \* times the upstream model call was invoked for the request
  sentMessages,   \* the `messages` the upstream model call was invoked with
  error,          \* the error the catch block received
  status,         \* status of the response
  respBody,       \* body of the response
  cardProps,      \* the props WorkflowCard was last rendered with
  cardTree,       \* what that render returned (empty before the first render)
  mwPc,           \* runMiddleware: not called, fn executing, fn has returned or thrown
  mwPromise,      \* the promise runMiddleware returned
  mwResults,      \* the arguments of the callback's invocations, in order
  mwThrown        \* what fn threw, and after how many invocations of the callback

limiterVars == <<clock, stepBacks, timestamps, log>>
postVars == <<running, pc, route, body, now, limited, gate, rateResolved, speedResolved,
              bodyRead, upstreamCalls, sentMessages, error, status, respBody>>
cardVars == <<cardProps, cardTree>>
mwVars == <<mwPc, mwPromise, mwResults, mwThrown>>
restVars == <<cardVars, mwVars>>
vars == <<clock, stepBacks, timestamps, log, running, pc, route, body, now,
          limited, gate, rateResolved, speedResolved, bodyRead, upstreamCalls, sentMessages, error, status,
          respBody, cardProps, cardTree, mwPc, mwPromise, mwResults, mwThrown>>

\* ------------------------------------------------------------ WorkflowCard

\* an optional prop: left out, or given a value
Undefined == [defined |-> FALSE, value |-> ""]
Some(v) == [defined |-> TRUE, value |-> v]

\* JavaScript's truthiness of an optional string: undefined and '' are falsy
Truthy(o) == o.defined /\ o.value # ""

\* a default parameter value (`priority = false`)
OrDefault(o, d) == IF o.defined THEN o.value ELSE d

\* a JSX element and a text child
El(type, attrs, children) == [type |-> type, attrs |-> attrs, text |-> "", children |-> children]
Text(str) == [type |-> "#text", attrs |-> [className |-> ""], text |-> str, children |-> <<>>]

\* `priority` left out
NoPriority == [defined |-> FALSE, value |-> FALSE]

\* the props of a card that was never rendered
NoProps ==
  [slug |-> "", title |-> "", description |-> "", imageSrc |-> "", tag |-> Undefined,
   priority |-> NoPriority]

\* Variant: the badge is rendered whenever the tag prop is supplied.
WorkflowCardBadgeIfDefined(props) ==
  El("Link", [href |-> "/recipes/" \o props.slug], <<
    El("Card", [className |-> "workflow-card overflow-hidden transition-all hover:bg-muted/50 hover:border-primary/20"], <<
      El("div", [className |-> "aspect-[2/1] relative"], <<
        El("Image", [src |-> props.imageSrc,
                     alt |-> props.title \o " workflow diagram",
                     fill |-> TRUE,
                     className |-> "object-cover p-6 bg-background/50"], <<>>) >>),
      El("div", [className |-> "p-6"], <<
        El("div", [className |-> "flex items-center justify-between gap-4"],
          <<El("h3", [className |-> "text-lg font-mono text-primary"], <<Text(props.title)>>)>>
            \o (IF props.tag.defined
                  THEN <<El("Badge", [variant |-> "outline", className |-> "font-mono text-secondary"],
                            <<Text(props.tag.value)>>)>>
                  ELSE <<>>)),
        El("p", [className |-> "mt-2 text-sm text-muted-foreground"], <<Text(props.description)>>) >>) >>) >>)

\* WorkflowCard of components/workflow-card.tsx: the element it returns.
\* {tag && (<Badge>...)} contributes the badge when tag is truthy and nothing
\* otherwise (React renders neither undefined nor '').
WorkflowCard(props) ==
  El("Link", [href |-> "/recipes/" \o props.slug], <<
    El("Card", [className |-> "workflow-card overflow-hidden transition-all hover:bg-muted/50 hover:border-primary/20"], <<
      El("div", [className |-> "aspect-[2/1] relative"], <<
        El("Image", [src |-> props.imageSrc,
                     alt |-> props.title \o " workflow diagram",
                     fill |-> TRUE,
                     className |-> "object-cover p-6 bg-background/50"], <<>>) >>),
      El("div", [className |-> "p-6"], <<
        El("div", [className |-> "flex items-center justify-between gap-4"],
          <<El("h3", [className |-> "text-lg font-mono text-primary"], <<Text(props.title)>>)>>
            \o (IF Truthy(props.tag)
                  THEN <<El("Badge", [variant |-> "outline", className |-> "font-mono text-secondary"],
                            <<Text(props.tag.value)>>)>>
                  ELSE <<>>)),
        El("p", [className |-> "mt-2 text-sm text-muted-foreground"], <<Text(props.description)>>) >>) >>) >>)

\* WorkflowCard of the second card module, which takes `priority` as well.
WorkflowCardWithPriority(props) ==
  El("Link", [href |-> "/recipes/" \o props.slug], <<
    El("Card", [className |-> "overflow-hidden transition-all hover:shadow-md hover:border-primary/20 group"], <<
      El("div", [className |-> "aspect-[2/1] relative bg-muted"], <<
        El("Image", [src |-> props.imageSrc,
                     alt |-> props.title \o " workflow diagram",
                     fill |-> TRUE,
                     priority |-> OrDefault(props.priority, FALSE),
                     className |-> "object-cover p-6 transition-transform duration-300 group-hover:scale-[1.02]"], <<>>) >>),
      El("div", [className |-> "p-6"], <<
        El("div", [className |-> "flex items-center justify-between gap-4"],
          <<El("h3", [className |-> "text-lg font-semibold tracking-tight"], <<Text(props.title)>>)>>
            \o (IF Truthy(props.tag)
                  THEN <<El("Badge", [variant |-> "secondary",
                                      className |-> "text-xs font-medium uppercase tracking-wide"],
                            <<Text(props.tag.value)>>)>>
                  ELSE <<>>)),
        El("p", [className |-> "mt-2.5 text-sm text-muted-foreground leading-relaxed"],
           <<Text(props.description)>>) >>) >>) >>)

\* the props the cards are rendered with
Slugs == {"", "test-workflow", "a/b"}
Titles == {"", "Test Workflow", "Test"}
Descriptions == {"", "This is a test workflow", "Test Workflow"}
ImageSrcs == {"/test-image.jpg"}
Tags == {Undefined, Some(""), Some("Test"), Some("0")}
Priorities == {NoPriority, Some(TRUE), Some(FALSE)}
CardProps ==
  [slug : Slugs, title : Titles, description : Descriptions, imageSrc : ImageSrcs,
   tag : Tags, priority : {NoPriority}]
CardPropsWithPriority ==
  [slug : Slugs, title : Titles, description : Descriptions, imageSrc : ImageSrcs,
   tag : Tags, priority : Priorities]

\* ----------------------------------------------------------- runMiddleware

\* The values fn may pass to the callback or throw.  A thenable carries the
\* way it settles and the name of what it settles with.
Value(kind, name) == [kind |-> kind, name |-> name, outcome |-> "none"]
Thenable(outcome, name) == [kind |-> "thenable", name |-> name, outcome |-> outcome]
Results ==
  {Value("undefined", "undefined"), Value("string", "route"),
   Value("error", "Error: A"), Value("error", "TypeError: B"),
   Value("object", "{message}"),
   Thenable("fulfilled", "inner"), Thenable("rejected", "inner"), Thenable("never", "inner")}
Throwables == {Value("error", "Error: thrown"), Value("string", "thrown")}

\* what a thenable settles with
ResultOf(th) ==
  IF th.outcome = "rejected" THEN Value("error", th.name) ELSE Value("string", th.name)

\* result instanceof Error
IsError(v) == v.kind = "error"

\* new Promise(...): pending, its resolving functions not yet called
PendingPromise ==
  [state |-> "pending", value |-> Value("undefined", "undefined"),
   alreadyResolved |-> FALSE, following |-> Value("undefined", "undefined")]
NothingThrown == [thrown |-> FALSE, value |-> Value("undefined", "undefined"), after |-> 0]

\* reject(v): rejects the promise unless a resolving function was called before
Reject(p, v) ==
  IF p.alreadyResolved THEN p
  ELSE [p EXCEPT !.state = "rejected", !.value = v, !.alreadyResolved = TRUE]

\* resolve(v): unless a resolving function was called before, fulfils the
\* promise with v, or makes it follow v when v is a thenable
Resolve(p, v) ==
  IF p.alreadyResolved THEN p
  ELSE IF v.kind = "thenable" THEN [p EXCEPT !.alreadyResolved = TRUE, !.following = v]
  ELSE [p EXCEPT !.state = "fulfilled", !.value = v, !.alreadyResolved = TRUE]

\* Variant: the callback resolves with whatever it is given.
CallbackAlwaysResolves(p, result) == Resolve(p, result)

\* (result) => { if (result instanceof Error) return reject(result); return resolve(result) }
Callback(p, result) == IF IsError(result) THEN Reject(p, result) ELSE Resolve(p, result)

\* ------------------------------------------------------------ RateLimiter

\* Variants of the filter, used to test that the properties depend on it.
PruneNever(ts, t) == ts
PruneClearsAll(ts, t) ==
  IF \E i \in DOMAIN ts : ~(t - ts[i] < WINDOW_SIZE) THEN <<>> ELSE ts
PruneInclusive(ts, t) == SelectSeq(ts, LAMBDA x : t - x <= WINDOW_SIZE)

\* this.timestamps.filter(ts => now - ts < WINDOW_SIZE), for a window w
FilterWindow(ts, t, w) == SelectSeq(ts, LAMBDA x : t - x < w)

\* this.timestamps.length >= MAX_REQUESTS, for a limit m
LengthAtLimit(ts, m) == Len(ts) >= m

\* this.timestamps.filter(ts => now - ts < WINDOW_SIZE)
Prune(ts, t) == FilterWindow(ts, t, WINDOW_SIZE)

\* this.timestamps.length >= MAX_REQUESTS
AtLimit(ts) == LengthAtLimit(ts, MAX_REQUESTS)

\* Variants of isRateLimited: the limit compared with > instead of >=, and
\* `now` recorded before the limit is checked.
isRateLimitedOffByOne(ts, t) ==
  LET kept == Prune(ts, t)
  IN  IF Len(kept) > MAX_REQUESTS
        THEN [limited |-> TRUE, thrown |-> "", timestamps |-> kept]
        ELSE [limited |-> FALSE, thrown |-> "", timestamps |-> Append(kept, t)]
isRateLimitedCountsDenied(ts, t) ==
  LET kept == Prune(ts, t)
  IN  [limited |-> AtLimit(kept), thrown |-> "", timestamps |-> Append(kept, t)]

\* Variant: `now` is put in front of the kept entries (unshift for push).
isRateLimitedPrepends(ts, t) ==
  LET kept == Prune(ts, t)
  IN  IF AtLimit(kept)
        THEN [limited |-> TRUE, thrown |-> "", timestamps |-> kept]
        ELSE [limited |-> FALSE, thrown |-> "", timestamps |-> <<t>> \o kept]

\* Variant: at the limit the function throws instead of returning true.
isRateLimitedThrows(ts, t) ==
  LET kept == Prune(ts, t)
  IN  IF AtLimit(kept)
        THEN [limited |-> TRUE, thrown |-> "Too many requests", timestamps |-> kept]
        ELSE [limited |-> FALSE, thrown |-> "", timestamps |-> Append(kept, t)]

\* RateLimiter.isRateLimited with `now` = t: the value returned, the message
\* of the error thrown ("": the function has no throw and calls nothing that
\* throws) and the timestamps it leaves behind.
isRateLimited(ts, t) ==
  LET kept == Prune(ts, t)
  IN  IF AtLimit(kept)
        THEN [limited |-> TRUE, thrown |-> "", timestamps |-> kept]
        ELSE [limited |-> FALSE, thrown |-> "", timestamps |-> Append(kept, t)]

\* Variant: the limit is compared with > instead of >=.
isRateLimitedRefOffByOne(ts, t) ==
  LET kept == FilterWindow(ts, t, WINDOW_SIZE_MS)
  IN  IF Len(kept) > MAX_REQUESTS_REF
        THEN [limited |-> TRUE, thrown |-> "", timestamps |-> kept]
        ELSE [limited |-> FALSE, thrown |-> "", timestamps |-> Append(kept, t)]

\* RateLimiter.isRateLimited under the configuration of the source.
isRateLimitedRef(ts, t) ==
  LET kept == FilterWindow(ts, t, WINDOW_SIZE_MS)
  IN  IF LengthAtLimit(kept, MAX_REQUESTS_REF)
        THEN [limited |-> TRUE, thrown |-> "", timestamps |-> kept]
        ELSE [limited |-> FALSE, thrown |-> "", timestamps |-> Append(kept, t)]

\* ------------------------------------------------------------------ Init
Init ==
  /\ clock = 0
  /\ stepBacks = 0
  /\ timestamps = <<>>
  /\ log = <<>>
  /\ running = None
  /\ pc = [r \in Req |-> "idle"]
  /\ route = [r \in Req |-> "fetch"]
  /\ body = [r \in Req |-> ValidBody]
  /\ now = [r \in Req |-> 0]
  /\ limited = [r \in Req |-> FALSE]
  /\ gate = [r \in Req |-> [state |-> "none", reason |-> ""]]
  /\ rateResolved = [r \in Req |-> 0]
  /\ speedResolved = [r \in Req |-> 0]
  /\ bodyRead = [r \in Req |-> FALSE]
  /\ upstreamCalls = [r \in Req |-> 0]
  /\ sentMessages = [r \in Req |-> <<>>]
  /\ error = [r \in Req |-> NoError]
  /\ status = [r \in Req |-> 0]
  /\ respBody = [r \in Req |-> "none"]
  /\ cardProps = NoProps
  /\ cardTree = <<>>
  /\ mwPc = "idle"
  /\ mwPromise = PendingPromise
  /\ mwResults = <<>>
  /\ mwThrown = NothingThrown

\* ----------------------------------------------------------------- clock

\* Time passes: a later Date.now() returns a larger value.
Tick ==
  /\ clock < MaxClock
  /\ clock' = clock + 1
  /\ UNCHANGED <<stepBacks, timestamps, log>>
  /\ UNCHANGED <<postVars, restVars>>

\* Date.now() is the wall clock: it may be set back between two reads.
ClockStepBack ==
  /\ stepBacks < MaxStepBacks
  /\ \E t \in 0..(clock - 1) : clock' = t
  /\ stepBacks' = stepBacks + 1
  /\ UNCHANGED <<timestamps, log>>
  /\ UNCHANGED <<postVars, restVars>>

\* ------------------------------------------------- direct admission check

\* One call of checkRateLimit(): limiter.isRateLimited() read Date.now(),
\* pruned, decided and (when admitted) appended; the call throws
\* 'Too many requests' exactly when the entry's limited is TRUE.
CheckRateLimit ==
  /\ running = None
  /\ Len(log) < MaxChecks
  /\ LET res == isRateLimited(timestamps, clock)
     IN  /\ timestamps' = res.timestamps
         /\ log' = Append(log, [now |-> clock, limited |-> res.limited,
                                thrown |-> res.thrown,
                                before |-> timestamps, after |-> res.timestamps])
  /\ UNCHANGED <<clock, stepBacks>>
  /\ UNCHANGED <<postVars, restVars>>

Next == Tick \/ ClockStepBack \/ CheckRateLimit

Spec == Init /\ [][Next]_vars

\* ---------------------------------------------- the reference configuration

\* the instants at which the reference run reads Date.now(): the start, the
\* last millisecond of the window that starts there, and the first after it
RefTimes == {0, WINDOW_SIZE_MS - 1, WINDOW_SIZE_MS}

\* Time passes to a later one of the instants.
RefTick ==
  /\ \E t \in RefTimes : t > clock /\ clock' = t
  /\ UNCHANGED <<stepBacks, timestamps, log>>
  /\ UNCHANGED <<postVars, restVars>>

\* One call of checkRateLimit() under the configuration of the source; the
\* history keeps the time read and the decision.
RefCheckRateLimit ==
  /\ Len(log) < RefMaxChecks
  /\ LET res == isRateLimitedRef(timestamps, clock)
     IN  /\ timestamps' = res.timestamps
         /\ log' = Append(log, [now |-> clock, limited |-> res.limited])
  /\ UNCHANGED <<clock, stepBacks>>
  /\ UNCHANGED <<postVars, restVars>>

NextRef == RefTick \/ RefCheckRateLimit

SpecRef == Init /\ [][NextRef]_vars

\* ------------------------------------------------- wrappers of the limiter

\* What a gate did with its `resolve` argument: how often it called it and
\* the message of the error it threw ("" when it returned normally).
\* checkRateLimit(): throws 'Too many requests' when isRateLimited() is true.
checkRateLimit(lim) == IF lim THEN "Too many requests" ELSE ""

\* Variant: resolve() is called before checkRateLimit().
rateLimiterResolvesFirst(lim) ==
  [resolved |-> 1, thrown |-> checkRateLimit(lim)]

\* Variant: the catch block swallows the error instead of rethrowing it.
rateLimiterSwallows(lim) ==
  IF checkRateLimit(lim) = ""
    THEN [resolved |-> 1, thrown |-> ""]
    ELSE [resolved |-> 0, thrown |-> ""]

\* rateLimiter(req, res, resolve): checkRateLimit(), then resolve(); whatever
\* is caught is rethrown as a new Error('Too many requests').
rateLimiter(lim) ==
  IF checkRateLimit(lim) = ""
    THEN [resolved |-> 1, thrown |-> ""]
    ELSE [resolved |-> 0, thrown |-> "Too many requests"]

\* Variant: the secondary gate rejects instead of passing through.
speedLimiterRejects == [resolved |-> 0, thrown |-> "Too fast"]

\* speedLimiter(req, res, resolve): resolve()
speedLimiter == [resolved |-> 1, thrown |-> ""]

\* new Promise((resolve) => gate(req, NextResponse, resolve)): settled by the
\* first of resolve() and a throw of the executor.
PromiseOf(g) ==
  IF g.resolved > 0 THEN [state |-> "fulfilled", reason |-> ""]
  ELSE IF g.thrown # "" THEN [state |-> "rejected", reason |-> g.thrown]
  ELSE [state |-> "pending", reason |-> ""]

\* Promise.all([p1, p2])
PromiseAll(p1, p2) ==
  IF p1.state = "rejected" THEN p1
  ELSE IF p2.state = "rejected" THEN p2
  ELSE IF p1.state = "fulfilled" /\ p2.state = "fulfilled" THEN p1
  ELSE [state |-> "pending", reason |-> ""]

\* ------------------------------------------------------------ POST handler

\* Variant: the schema has no upper bound on the length of the content.
SchemaAcceptsNoMax(b) ==
  /\ b.array
  /\ \A i \in DOMAIN b.items :
       /\ b.items[i].role \in Roles
       /\ b.items[i].content.string
       /\ b.items[i].content.length >= MIN_CONTENT

\* messageSchema: does parse accept the body?
SchemaAccepts(b) ==
  /\ b.array
  /\ \A i \in DOMAIN b.items :
       /\ b.items[i].role \in Roles
       /\ b.items[i].content.string
       /\ b.items[i].content.length >= MIN_CONTENT
       /\ b.items[i].content.length <= MAX_CONTENT

\* messageSchema.parse(body).messages: the keys the schema names, of each
\* message
ValidatedMessages(b) ==
  [i \in DOMAIN b.items |-> [role |-> b.items[i].role, content |-> b.items[i].content]]

\* Variant: the catch block compares with the text of the response instead
\* of the message the gate throws.
ErrorResponseWrongMessage(e) ==
  IF e.kind = "ZodError"
    THEN [status |-> 400, body |-> "Invalid request format"]
  ELSE IF e.message = "Rate limit exceeded. Please try again later."
    THEN [status |-> 429, body |-> "Rate limit exceeded. Please try again later."]
  ELSE [status |-> 500, body |-> "An error occurred while processing your request"]

\* The catch block of POST: the response for a caught error.
ErrorResponse(e) ==
  IF e.kind = "ZodError"
    THEN [status |-> 400, body |-> "Invalid request format"]
  ELSE IF e.message = "Too many requests"
    THEN [status |-> 429, body |-> "Rate limit exceeded. Please try again later."]
  ELSE [status |-> 500, body |-> "An error occurred while processing your request"]

\* error messages the Together SDK call may fail with
UpstreamMessages == {"Too many requests", "upstream failure"}

Keep(f, r, v) == [f EXCEPT ![r] = v]

\* the handler ends in its catch block with error e
Catch(r, e) ==
  /\ error' = Keep(error, r, e)
  /\ status' = Keep(status, r, ErrorResponse(e).status)
  /\ respBody' = Keep(respBody, r, ErrorResponse(e).body)
  /\ pc' = Keep(pc, r, "done")

\* the handler returns the upstream's data
Succeed(r) ==
  /\ status' = Keep(status, r, 200)
  /\ respBody' = Keep(respBody, r, "data")
  /\ pc' = Keep(pc, r, "done")
  /\ UNCHANGED error

\* A request with a body of B arrives and POST starts: the executor of the
\* first promise calls rateLimiter -> checkRateLimit -> limiter.isRateLimited.
PostStartWith(r, B) ==
  /\ pc[r] = "idle"
  /\ \A q \in 1..(r - 1) : pc[q] # "idle"   \* requests are numbered as they arrive
  /\ running = None
  /\ running' = r
  /\ \E rt \in Routes : route' = Keep(route, r, rt)
  /\ \E b \in B : body' = Keep(body, r, b)
  /\ pc' = Keep(pc, r, "readNow")
  /\ UNCHANGED <<now, limited, gate, rateResolved, speedResolved, bodyRead,
                 upstreamCalls, sentMessages, error, status, respBody>>
  /\ UNCHANGED <<limiterVars, restVars>>

PostStart(r) == PostStartWith(r, Bodies)

\* const now = Date.now()
ReadNow(r) ==
  /\ pc[r] = "readNow"
  /\ now' = Keep(now, r, clock)
  /\ pc' = Keep(pc, r, "filter")
  /\ UNCHANGED <<running, route, body, limited, gate, rateResolved,
                 speedResolved, bodyRead, upstreamCalls, sentMessages, error, status, respBody>>
  /\ UNCHANGED <<limiterVars, restVars>>

\* this.timestamps = this.timestamps.filter(...)
Filter(r) ==
  /\ pc[r] = "filter"
  /\ timestamps' = Prune(timestamps, now[r])
  /\ pc' = Keep(pc, r, "check")
  /\ UNCHANGED <<running, route, body, now, limited, gate, rateResolved,
                 speedResolved, bodyRead, upstreamCalls, sentMessages, error, status, respBody>>
  /\ UNCHANGED <<clock, stepBacks, log, restVars>>

\* Variant: the handler yields the thread between the count check and the
\* append (as an `await` placed there would).
CheckLimitYields(r) ==
  /\ pc[r] = "check"
  /\ IF AtLimit(timestamps)
       THEN /\ limited' = Keep(limited, r, TRUE)
            /\ pc' = Keep(pc, r, "settle")
            /\ UNCHANGED running
       ELSE /\ pc' = Keep(pc, r, "push")
            /\ running' = None
            /\ UNCHANGED limited
  /\ UNCHANGED <<route, body, now, gate, rateResolved,
                 speedResolved, bodyRead, upstreamCalls, sentMessages, error, status, respBody>>
  /\ UNCHANGED <<limiterVars, restVars>>

\* if (this.timestamps.length >= MAX_REQUESTS) return true
CheckLimit(r) ==
  /\ pc[r] = "check"
  /\ IF AtLimit(timestamps)
       THEN /\ limited' = Keep(limited, r, TRUE)
            /\ pc' = Keep(pc, r, "settle")
       ELSE /\ pc' = Keep(pc, r, "push")
            /\ UNCHANGED limited
  /\ UNCHANGED <<running, route, body, now, gate, rateResolved,
                 speedResolved, bodyRead, upstreamCalls, sentMessages, error, status, respBody>>
  /\ UNCHANGED <<limiterVars, restVars>>

\* Variant: the request's content decides whether its slot is recorded (a
\* request whose body will not validate is not counted).
PushSkipsInvalid(r) ==
  /\ pc[r] = "push"
  /\ timestamps' = IF SchemaAccepts(body[r]) THEN Append(timestamps, now[r])
                                             ELSE timestamps
  /\ limited' = Keep(limited, r, FALSE)
  /\ pc' = Keep(pc, r, "settle")
  /\ UNCHANGED <<running, route, body, now, gate, rateResolved,
                 speedResolved, bodyRead, upstreamCalls, sentMessages, error, status, respBody>>
  /\ UNCHANGED <<clock, stepBacks, log, restVars>>

\* this.timestamps.push(now); return false
Push(r) ==
  /\ pc[r] = "push"
  /\ timestamps' = Append(timestamps, now[r])
  /\ limited' = Keep(limited, r, FALSE)
  /\ pc' = Keep(pc, r, "settle")
  /\ UNCHANGED <<running, route, body, now, gate, rateResolved,
                 speedResolved, bodyRead, upstreamCalls, sentMessages, error, status, respBody>>
  /\ UNCHANGED <<clock, stepBacks, log, restVars>>

\* positions at which the handler is suspended in an await
Suspended == {"awaitGates", "awaitBody", "awaitUpstream", "awaitJson"}

\* rateLimiter resolves or throws, speedLimiter resolves, and the handler
\* awaits Promise.all of the two promises: it yields the thread.
SettleGates(r) ==
  /\ pc[r] = "settle"
  /\ gate' = Keep(gate, r, PromiseAll(PromiseOf(rateLimiter(limited[r])),
                                      PromiseOf(speedLimiter)))
  /\ rateResolved' = Keep(rateResolved, r, rateLimiter(limited[r]).resolved)
  /\ speedResolved' = Keep(speedResolved, r, speedLimiter.resolved)
  /\ running' = None
  /\ pc' = Keep(pc, r, "awaitGates")
  /\ UNCHANGED <<route, body, now, limited, bodyRead, upstreamCalls, sentMessages, error,
                 status, respBody>>
  /\ UNCHANGED <<limiterVars, restVars>>

\* The await of Promise.all settles: on rejection the catch block answers,
\* otherwise req.json() is called and awaited.
ResumeGates(r) ==
  /\ pc[r] = "awaitGates"
  /\ running = None
  /\ gate[r].state # "pending"
  /\ IF gate[r].state = "rejected"
       THEN /\ Catch(r, [kind |-> "Error", message |-> gate[r].reason])
            /\ UNCHANGED bodyRead
       ELSE /\ bodyRead' = Keep(bodyRead, r, TRUE)
            /\ pc' = Keep(pc, r, "awaitBody")
            /\ UNCHANGED <<error, status, respBody>>
  /\ UNCHANGED <<running, route, body, now, limited, gate, rateResolved,
                 speedResolved, upstreamCalls, sentMessages>>
  /\ UNCHANGED <<limiterVars, restVars>>

\* Variant: a request that fails validation gives its slot back.
ResumeBodyRefunds(r) ==
  /\ pc[r] = "awaitBody"
  /\ running = None
  /\ IF ~body[r].json
       THEN /\ Catch(r, [kind |-> "SyntaxError", message |-> "Unexpected token"])
            /\ UNCHANGED <<upstreamCalls, sentMessages, timestamps>>
     ELSE IF ~SchemaAccepts(body[r])
       THEN /\ Catch(r, [kind |-> "ZodError", message |-> "invalid"])
            /\ timestamps' = SelectSeq(timestamps, LAMBDA x : x # now[r])
            /\ UNCHANGED <<upstreamCalls, sentMessages>>
     ELSE /\ upstreamCalls' = Keep(upstreamCalls, r, upstreamCalls[r] + 1)
          /\ sentMessages' = Keep(sentMessages, r, ValidatedMessages(body[r]))
          /\ pc' = Keep(pc, r, "awaitUpstream")
          /\ UNCHANGED <<error, status, respBody, timestamps>>
  /\ UNCHANGED <<running, route, body, now, limited, gate, rateResolved,
                 speedResolved, bodyRead>>
  /\ UNCHANGED <<clock, stepBacks, log, restVars>>

\* req.json() settles; messageSchema.parse(body); the upstream call is made
\* and awaited.
ResumeBody(r) ==
  /\ pc[r] = "awaitBody"
  /\ running = None
  /\ IF ~body[r].json
       THEN /\ Catch(r, [kind |-> "SyntaxError", message |-> "Unexpected token"])
            /\ UNCHANGED <<upstreamCalls, sentMessages>>
     ELSE IF ~SchemaAccepts(body[r])
       THEN /\ Catch(r, [kind |-> "ZodError", message |-> "invalid"])
            /\ UNCHANGED <<upstreamCalls, sentMessages>>
     ELSE /\ upstreamCalls' = Keep(upstreamCalls, r, upstreamCalls[r] + 1)
          /\ sentMessages' = Keep(sentMessages, r, ValidatedMessages(body[r]))
          /\ pc' = Keep(pc, r, "awaitUpstream")
          /\ UNCHANGED <<error, status, respBody>>
  /\ UNCHANGED <<running, route, body, now, limited, gate, rateResolved,
                 speedResolved, bodyRead>>
  /\ UNCHANGED <<limiterVars, restVars>>

\* The upstream call settles.  together.chat.create resolves with the
\* response or fails with an error of the SDK; fetch resolves with a
\* Response, whose json() is awaited next, or fails with a TypeError.
ResumeUpstream(r) ==
  /\ pc[r] = "awaitUpstream"
  /\ running = None
  /\ IF route[r] = "sdk"
       THEN \/ Succeed(r)
            \/ \E m \in UpstreamMessages : Catch(r, [kind |-> "Error", message |-> m])
       ELSE \/ /\ pc' = Keep(pc, r, "awaitJson")
               /\ UNCHANGED <<error, status, respBody>>
            \/ Catch(r, [kind |-> "TypeError", message |-> "fetch failed"])
  /\ UNCHANGED <<running, route, body, now, limited, gate, rateResolved,
                 speedResolved, bodyRead, upstreamCalls, sentMessages>>
  /\ UNCHANGED <<limiterVars, restVars>>

\* response.json() settles (fetch route)
ResumeJson(r) ==
  /\ pc[r] = "awaitJson"
  /\ running = None
  /\ \/ Succeed(r)
     \/ Catch(r, [kind |-> "SyntaxError", message |-> "Unexpected token"])
  /\ UNCHANGED <<running, route, body, now, limited, gate, rateResolved,
                 speedResolved, bodyRead, upstreamCalls, sentMessages>>
  /\ UNCHANGED <<limiterVars, restVars>>

\* the steps of POST after the request has arrived
Run(r) ==
  \/ ReadNow(r) \/ Filter(r) \/ CheckLimit(r) \/ Push(r)
  \/ SettleGates(r) \/ ResumeGates(r) \/ ResumeBody(r) \/ ResumeUpstream(r)
  \/ ResumeJson(r)

Handler(r) == PostStart(r) \/ Run(r)

\* time passing while POST requests are served
PostTick == clock < MaxPostClock /\ Tick

NextPost == PostTick \/ \E r \in Req : Handler(r)

SpecPost == Init /\ [][NextPost]_vars

\* --------------------------------------------- the admission stage alone

\* the steps of POST up to the end of `await Promise.all([...])`
AdmissionStage(r) ==
  \/ ReadNow(r) \/ Filter(r) \/ CheckLimit(r) \/ Push(r)
  \/ SettleGates(r) \/ ResumeGates(r)

\* the requests are followed until they leave the admission stage
NextGates == PostTick \/ \E r \in Req : PostStart(r) \/ AdmissionStage(r)

\* The event loop runs every continuation that is ready: a handler that can
\* take a step is not passed over forever.
SpecGates == Init /\ [][NextGates]_vars /\ \A r \in Req : WF_vars(AdmissionStage(r))

\* ------------------------------------------- one request, with any body

\* POST serving a single request whose body is any of AllBodies
NextBody == PostStartWith(1, AllBodies) \/ Run(1)

SpecBody == Init /\ [][NextBody]_vars

\* ======================================================================
\* Properties of the limiter, over the recorded calls of checkRateLimit
\* ======================================================================
Range(s) == {s[i] : i \in DOMAIN s}
Count(s, x) == Cardinality({i \in DOMAIN s : s[i] = x})
AdmittedBefore(i) == {j \in 1..(i - 1) : ~log[j].limited}
Last(s) == s[Len(s)]
\* the entries of ts a check at time t still counts: now - ts < windowDuration
StillValid(ts, t) == {i \in DOMAIN ts : t - ts[i] < WINDOW_SIZE}
\* all recorded checks lie within one window duration of each other
WithinOneWindow ==
  \A i, j \in DOMAIN log : log[i].now - log[j].now < WINDOW_SIZE

\* C1 (bounded admission): starting from the empty window, when all checks
\* made so far lie within a single window duration, at most MAX_REQUESTS of
\* them were admitted, and every check made after MAX_REQUESTS admissions
\* was denied.
C1_BoundedAdmission ==
  WithinOneWindow =>
    /\ Cardinality({i \in DOMAIN log : ~log[i].limited}) <= MAX_REQUESTS
    /\ \A i \in DOMAIN log :
         Cardinality(AdmittedBefore(i)) >= MAX_REQUESTS => log[i].limited

\* Scenario A: checks at three increasing instants of one window give
\* Admitted, Admitted, Denied.
C1_Witness ==
  /\ Len(log) >= 3
  /\ WithinOneWindow
  /\ log[1].now < log[2].now /\ log[2].now < log[3].now
  /\ ~log[1].limited /\ ~log[2].limited /\ log[3].limited

\* C5 (decision rule): a check is denied exactly when the entries still
\* valid after pruning number >= MAX_REQUESTS; a denied check consumes no
\* slot; an admitted check leaves the pruned window with `now` appended
\* exactly once.
C5_DecisionRule ==
  \A i \in DOMAIN log :
    LET e == log[i]
        n == Cardinality(StillValid(e.before, e.now))
    IN  /\ e.limited <=> n >= MAX_REQUESTS
        /\ e.limited => Len(e.after) = n
        /\ ~e.limited =>
             /\ Len(e.after) = n + 1
             /\ Last(e.after) = e.now
             /\ Count(e.after, e.now) = Count(e.before, e.now) + 1

\* both outcomes have happened, the denial with the pruned count at the limit
C5_Witness ==
  \E i, j \in DOMAIN log :
    /\ ~log[i].limited /\ Len(log[i].before) > 0
    /\ log[j].limited /\ Len(log[j].after) = MAX_REQUESTS

\* C6 (non-mutation on denial): a denied check adds nothing to the window, it
\* only removes expired entries; a retry at the same instant directly after
\* a denial is denied again and leaves the window as it was.
C6_DeniedDoesNotRecord ==
  \A i \in DOMAIN log :
    LET e == log[i]
    IN  /\ e.limited =>
             /\ e.after = SelectSeq(e.before, LAMBDA x : x \in Range(e.after))
             /\ \A x \in Range(e.before) \ Range(e.after) :
                  e.now - x >= WINDOW_SIZE
        /\ (i > 1 /\ log[i - 1].limited /\ log[i - 1].now = e.now) =>
             e.limited /\ e.after = e.before

\* a denial followed by a retry at the same instant
C6_Witness ==
  \E i \in DOMAIN log :
    i > 1 /\ log[i - 1].limited /\ log[i - 1].now = log[i].now /\ log[i].limited

\* C7 (window recovery): when the window was full after the last admission,
\* made at t0, and nothing was admitted since, a check at a time
\* > t0 + WINDOW_SIZE is admitted.
LastAdmission(i) ==
  CHOOSE j \in AdmittedBefore(i) : \A k \in AdmittedBefore(i) : k <= j
C7_WindowRecovery ==
  \A i \in DOMAIN log :
    (/\ AdmittedBefore(i) # {}
     /\ Len(log[LastAdmission(i)].after) = MAX_REQUESTS
     /\ log[i].now > log[LastAdmission(i)].now + WINDOW_SIZE)
      => ~log[i].limited

\* Scenario B: two admissions fill the window, the next check comes more
\* than a window later and is admitted.
C7_Witness ==
  \E i \in DOMAIN log :
    /\ AdmittedBefore(i) # {}
    /\ Len(log[LastAdmission(i)].after) = MAX_REQUESTS
    /\ log[i].now > log[LastAdmission(i)].now + WINDOW_SIZE
    /\ Len(log[i].before) = MAX_REQUESTS
    /\ ~log[i].limited

\* C8 as stated (partial expiry): a check at `now` removes only the entries
\* with timestamp < now - WINDOW_SIZE, keeps every other entry, and decides
\* on the count of the kept ones.
C8_AsStated ==
  \A i \in DOMAIN log :
    LET e == log[i]
        kept == SelectSeq(e.before, LAMBDA x : ~(x < e.now - WINDOW_SIZE))
    IN  /\ e.limited <=> Len(kept) >= MAX_REQUESTS
        /\ e.after = IF e.limited THEN kept ELSE Append(kept, e.now)

\* C8 as amended: a check at `now` removes exactly the entries with
\* timestamp <= now - WINDOW_SIZE (now - ts >= WINDOW_SIZE), keeps every
\* other entry in its order, and decides on the count of the kept ones.
C8_PartialExpiry ==
  \A i \in DOMAIN log :
    LET e == log[i]
        kept == SelectSeq(e.before, LAMBDA x : ~(x <= e.now - WINDOW_SIZE))
    IN  /\ e.limited <=> Len(kept) >= MAX_REQUESTS
        /\ e.after = IF e.limited THEN kept ELSE Append(kept, e.now)

\* staggered admissions, then a check that expires one entry and keeps one
C8_Witness ==
  \E i \in DOMAIN log :
    LET e == log[i]
    IN  /\ Len(e.before) = 2
        /\ e.before[1] < e.before[2]
        /\ e.now - e.before[1] >= WINDOW_SIZE
        /\ e.now - e.before[2] < WINDOW_SIZE
        /\ e.after = <<e.before[2], e.now>>

\* C10 as stated (window content), on the runs whose clock never ran
\* backwards: in every state every stored timestamp lies within
\* [clock - WINDOW_SIZE, clock].
C10_AsStated ==
  stepBacks = 0 =>
    \A i \in DOMAIN timestamps :
      clock - WINDOW_SIZE <= timestamps[i] /\ timestamps[i] <= clock

\* C10 as amended: with `now` the time read by the latest check, every
\* stored timestamp ts satisfies now - ts < WINDOW_SIZE, and ts <= now
\* unless the clock was set back; nothing is promised about the current
\* clock between two checks.
C10_WindowContent ==
  log # <<>> =>
    \A i \in DOMAIN timestamps :
      /\ Last(log).now - timestamps[i] < WINDOW_SIZE
      /\ stepBacks = 0 => timestamps[i] <= Last(log).now

\* a check has pruned an entry that was exactly one window old, kept a
\* younger one, and time has passed since
C10_Witness ==
  /\ log # <<>>
  /\ \E x \in Range(Last(log).before) : Last(log).now - x = WINDOW_SIZE
  /\ Len(timestamps) = 2
  /\ clock > Last(log).now

\* ======================================================================
\* Properties of the POST handlers
\* ======================================================================
\* positions inside limiter.isRateLimited() and the settling of the gates
InCheck == {"readNow", "filter", "check", "push", "settle"}
\* the requests whose admission check has returned
Decided == {r \in Req : pc[r] \in {"settle", "done"} \cup Suspended}
AdmittedReqs == {r \in Decided : ~limited[r]}
DeniedReqs == {r \in Decided : limited[r]}
Min(a, b) == IF a <= b THEN a ELSE b
\* the requests admitted with a timestamp in (t - WINDOW_SIZE, t]
AdmittedIn(t) == {r \in AdmittedReqs : t - WINDOW_SIZE < now[r] /\ now[r] <= t}

\* C2 (concurrent burst): when every check made so far read the same
\* instant, against the window that started empty, exactly
\* min(N, MAX_REQUESTS) of the N checks were admitted and the others denied.
C2_ConcurrentBurst ==
  (\A r, q \in Decided : now[r] = now[q]) =>
    /\ Cardinality(AdmittedReqs) = Min(Cardinality(Decided), MAX_REQUESTS)
    /\ Cardinality(DeniedReqs) = Cardinality(Decided) - Cardinality(AdmittedReqs)

\* more requests than the limit are in flight together, all checked at one
\* instant, none answered yet
C2_Witness ==
  /\ Decided = Req
  /\ NumReq > MAX_REQUESTS
  /\ \A r \in Req : now[r] = now[1] /\ pc[r] = "awaitGates"
  /\ Cardinality(AdmittedReqs) = MAX_REQUESTS
  /\ Cardinality(DeniedReqs) = NumReq - MAX_REQUESTS

\* the parts of C3 that hold as stated: a handler inside the admission check
\* holds the thread and no other handler is inside it; the count a handler
\* checked is still the window's count when it appends; never more than
\* MAX_REQUESTS requests are admitted within one window duration.
AtomicAdmission ==
  /\ \A r \in Req :
       pc[r] \in InCheck =>
         running = r /\ \A q \in Req \ {r} : pc[q] \notin InCheck
  /\ \A r \in Req : pc[r] = "push" => ~AtLimit(timestamps)
  /\ \A t \in 0..MaxPostClock : Cardinality(AdmittedIn(t)) <= MAX_REQUESTS

\* the handlers that have started, have not answered and do not run
SuspendedReqs == {r \in Req : pc[r] \notin {"idle", "done"} /\ running # r}

C4_DeniedNeverForwarded ==
  \A r \in DeniedReqs :
    /\ ~bodyRead[r]
    /\ upstreamCalls[r] = 0
    /\ pc[r] \in {"settle", "awaitGates", "done"}
    /\ pc[r] = "done" => error[r] # NoError /\ status[r] >= 400

\* a denied request has been answered while an admitted one reached the
\* upstream
C4_Witness ==
  \E r, q \in Req :
    /\ r \in DeniedReqs /\ pc[r] = "done" /\ body[r] = ValidBody
    /\ q \in AdmittedReqs /\ upstreamCalls[q] = 1

\* C9 (denial signalling): a denied request is answered with status 429 and
\* the body {"error": "Rate limit exceeded. Please try again later."}, in
\* either route handler.
C9_DenialSignalling ==
  \A r \in DeniedReqs :
    pc[r] = "done" =>
      /\ status[r] = 429
      /\ respBody[r] = "Rate limit exceeded. Please try again later."

\* a denied request of the SDK route was answered; its body would not have
\* passed validation
C9_Witness ==
  \E r \in DeniedReqs :
    pc[r] = "done" /\ status[r] = 429 /\ route[r] = "sdk" /\ body[r] = InvalidBody

\* C11 (bounded history): the window never holds more than MAX_REQUESTS
\* timestamps, whether or not its entries have expired.
C11_BoundedHistory == Len(timestamps) <= MAX_REQUESTS

\* a burst filled the window and no check came since: every entry is expired
\* and still stored
C11_Witness ==
  /\ Len(timestamps) = MAX_REQUESTS
  /\ \A i \in DOMAIN timestamps : clock - timestamps[i] >= WINDOW_SIZE

Sorted(s) == \A i, j \in DOMAIN s : i < j => s[i] <= s[j]
\* the entries a recorded check kept: what it left, less the `now` it appended
KeptBy(e) == IF e.limited THEN e.after ELSE SubSeq(e.after, 1, Len(e.after) - 1)
\* pruning keeps the kept entries in the order they had
PruningKeepsOrder ==
  \A i \in DOMAIN log :
    KeptBy(log[i]) =
      SelectSeq(log[i].before, LAMBDA x : x \in Range(KeptBy(log[i])))
\* every appended timestamp is >= every timestamp stored with it
AppendsOnTop ==
  \A i \in DOMAIN log :
    ~log[i].limited => \A x \in Range(log[i].after) : x <= log[i].now

\* C12 as stated (ordered history): the values read from Date.now() are
\* monotonic, so the stored sequence is non-decreasing in every state,
\* pruning keeps the relative order and every appended timestamp is >= every
\* stored one.
C12_AsStated == Sorted(timestamps) /\ PruningKeepsOrder /\ AppendsOnTop

\* C12 as amended: pruning always keeps the relative order of the kept
\* entries; as long as Date.now(), a wall clock, has not been set back, the
\* stored sequence is non-decreasing and every appended timestamp is >=
\* every stored one.
C12_OrderedHistory ==
  /\ PruningKeepsOrder
  /\ stepBacks = 0 => Sorted(timestamps) /\ AppendsOnTop

\* with a clock that only moved forward, a check pruned the older of two
\* staggered entries and appended a later one
C12_Witness ==
  /\ stepBacks = 0
  /\ \E i \in DOMAIN log :
       LET e == log[i]
       IN  /\ ~e.limited /\ Len(e.before) = 2 /\ Len(e.after) = 2
           /\ e.before[1] < e.before[2]
           /\ e.after[1] = e.before[2] /\ e.after[1] < e.after[2]

RECURSIVE SumTo(_, _)
SumTo(f, n) == IF n = 0 THEN 0 ELSE f[n] + SumTo(f, n - 1)

\* C13 (admitted licenses exactly one protected action): a request invokes
\* the upstream at most once and only after its check was admitted; the
\* upstream invocations never outnumber the Admitted decisions.
C13_OneActionPerAdmission ==
  /\ \A r \in Req :
       /\ upstreamCalls[r] <= 1
       /\ upstreamCalls[r] > 0 => r \in AdmittedReqs
  /\ SumTo(upstreamCalls, NumReq) <= Cardinality(AdmittedReqs)

\* all requests answered: one admitted and forwarded, one admitted and
\* answered 400 without a forward, one denied
C13_Witness ==
  \E r, q, p \in Req :
    /\ pc[r] = "done" /\ ~limited[r] /\ upstreamCalls[r] = 1 /\ status[r] = 200
    /\ pc[q] = "done" /\ ~limited[q] /\ upstreamCalls[q] = 0 /\ status[q] = 400
    /\ pc[p] = "done" /\ limited[p]

\* C14 (the core decision never throws): in every window state and at every
\* clock value a call of isRateLimited can be made and completes without
\* throwing; what it returns is a boolean, true for a denial, and it leaves a
\* window of clock values behind.
C14_NeverThrows ==
  /\ (running = None /\ Len(log) < MaxChecks) => ENABLED CheckRateLimit
  /\ \A i \in DOMAIN log :
       /\ log[i].thrown = ""
       /\ log[i].limited \in BOOLEAN
       /\ log[i].after \in Seq(0..MaxClock)

\* a call on a full window returned true and left the window as it was
C14_Witness ==
  \E i \in DOMAIN log :
    /\ log[i].limited = TRUE
    /\ Len(log[i].before) = MAX_REQUESTS
    /\ log[i].after = log[i].before

\* the requests whose two gates have run
Settled == {r \in Req : pc[r] \in Suspended \cup {"done"}}

\* C15 (wrapper mapping): checkRateLimit throws 'Too many requests' exactly
\* when the core check returned Denied; rateLimiter calls resolve exactly once
\* when it was Admitted, and otherwise throws 'Too many requests' without
\* calling resolve.
C15_WrapperMapping ==
  \A r \in Settled :
    /\ checkRateLimit(limited[r]) = (IF limited[r] THEN "Too many requests" ELSE "")
    /\ rateResolved[r] = (IF limited[r] THEN 0 ELSE 1)
    /\ limited[r] => gate[r] = [state |-> "rejected", reason |-> "Too many requests"]
    /\ ~limited[r] => gate[r].state = "fulfilled"

\* the gates of a denied and of an admitted request have run
C15_Witness ==
  \E r, q \in Settled :
    /\ limited[r] /\ rateResolved[r] = 0 /\ gate[r].state = "rejected"
    /\ ~limited[q] /\ rateResolved[q] = 1 /\ gate[q].state = "fulfilled"

\* The decisions as a function of the arrival times alone: the window after
\* the first n of the times have been checked, from the empty window, and
\* the decision of the n-th check.
RECURSIVE WindowAfter(_, _)
WindowAfter(times, n) ==
  IF n = 0 THEN <<>>
  ELSE isRateLimited(WindowAfter(times, n - 1), times[n]).timestamps
DecisionOf(times, n) == isRateLimited(WindowAfter(times, n - 1), times[n]).limited

Steps(r, ps) == pc[r] \in ps /\ pc'[r] # pc[r]

\* C17 (exclusive ownership): the window changes only in the filter and the
\* push of an admission check; the gates' settling (speedLimiter included),
\* body parsing, validation, the upstream call and the building of a
\* response leave it unchanged; an entry leaves the window only when the
\* filter of a check finds it expired, so no slot is ever given back.
C17_ExclusiveOwnership ==
  [][ /\ timestamps' # timestamps =>
           \E r \in Req : Steps(r, {"filter", "push"})
      /\ (\E r \in Req : Steps(r, {"settle"} \cup Suspended)) =>
           timestamps' = timestamps
      /\ \A x \in Range(timestamps) :
           Count(timestamps', x) < Count(timestamps, x) =>
             \E r \in Req : Steps(r, {"filter"}) /\ now[r] - x >= WINDOW_SIZE
    ]_vars

\* two admitted requests were answered 400 and 500 (after an upstream
\* failure) and their two slots are still taken
C17_Witness ==
  \E r, q \in Req :
    /\ pc[r] = "done" /\ ~limited[r] /\ status[r] = 400
    /\ pc[q] = "done" /\ ~limited[q] /\ status[q] = 500 /\ upstreamCalls[q] = 1
    /\ r < q /\ timestamps = <<now[r], now[q]>>

\* C18 (the secondary gate always admits): speedLimiter calls resolve exactly
\* once and does not throw, for every request, and its step leaves the
\* window unchanged; the outcome of the two gates together is the outcome of
\* the primary gate alone, which is all the rest of the handler and hence
\* the response depends on.
C18_SecondaryGateAdmits ==
  /\ [](\A r \in Settled :
          /\ speedResolved[r] = 1
          /\ speedLimiter.thrown = ""
          /\ gate[r] = PromiseOf(rateLimiter(limited[r])))
  /\ [][(\E r \in Req : Steps(r, {"settle"})) => timestamps' = timestamps]_vars

\* the secondary gate resolved for a request the primary gate denied and
\* for one that went on to a 200 response
C18_Witness ==
  \E r, q \in Req :
    /\ pc[r] = "done" /\ limited[r] /\ speedResolved[r] = 1 /\ status[r] = 429
    /\ pc[q] = "done" /\ ~limited[q] /\ speedResolved[q] = 1 /\ status[q] = 200

\* C19 (reference configuration): the window is 900,000 ms and the limit 100;
\* from the empty window, as long as all checks lie within a span shorter
\* than 900,000 ms, the first 100 are admitted and every later one, the
\* 101st first, is denied.
C19_ReferenceConfiguration ==
  /\ WINDOW_SIZE_MS = 900000
  /\ MAX_REQUESTS_REF = 100
  /\ (log # <<>> /\ Last(log).now - log[1].now < 900000) =>
       \A i \in DOMAIN log : log[i].limited <=> i > 100

\* 100 checks were admitted and the 101st, made in the last millisecond of
\* the span, was denied
C19_Witness ==
  /\ Len(log) = 101
  /\ log[1].now = 0 /\ log[101].now = 899999
  /\ \A i \in 1..100 : ~log[i].limited
  /\ log[101].limited

\* what C20 requires of one message: a role of the three and a content
\* string of 1 to 4000 characters
WellFormed(m) ==
  /\ m.role \in {"user", "assistant", "system"}
  /\ m.content.string
  /\ m.content.length >= 1
  /\ m.content.length <= 4000

\* the body was parsed as JSON and does not hold a list of well-formed messages
FailsValidation(b) ==
  /\ b.json
  /\ ~(b.array /\ \A i \in DOMAIN b.items : WellFormed(b.items[i]))

\* C20 (validated forwarding): the upstream call is invoked only with a
\* message list in which every message has a role in {user, assistant,
\* system} and a content string of length between 1 and 4000; an admitted
\* request whose parsed body fails this validation never causes an upstream
\* call and is answered with status 400 and 'Invalid request format'.
C20_ValidatedForwarding ==
  \A r \in Req :
    /\ upstreamCalls[r] > 0 =>
         /\ body[r].json /\ body[r].array
         /\ Len(sentMessages[r]) = Len(body[r].items)
         /\ \A i \in DOMAIN sentMessages[r] :
              /\ WellFormed(sentMessages[r][i])
              /\ sentMessages[r][i].role = body[r].items[i].role
              /\ sentMessages[r][i].content = body[r].items[i].content
    /\ (pc[r] # "idle" /\ FailsValidation(body[r])) => upstreamCalls[r] = 0
    /\ (pc[r] = "done" /\ rateResolved[r] = 1 /\ FailsValidation(body[r])) =>
         /\ status[r] = 400
         /\ respBody[r] = "Invalid request format"

\* the upstream was called with two messages whose contents have the
\* shortest and the longest allowed length
C20_Witness ==
  \E r \in Req :
    /\ upstreamCalls[r] = 1
    /\ Len(sentMessages[r]) = 2
    /\ sentMessages[r][1].content.length = 1
    /\ sentMessages[r][2].content.length = 4000
    /\ body[r].items[1].extra

\* an admitted request whose second message is one character too long was
\* answered 400 without an upstream call
C20_RejectionReached ==
  \E r \in Req :
    /\ pc[r] = "done" /\ rateResolved[r] = 1
    /\ Len(body[r].items) = 2
    /\ WellFormed(body[r].items[1])
    /\ body[r].items[2].content.length = 4001
    /\ status[r] = 400 /\ upstreamCalls[r] = 0

\* ------------------------------------------------------- rendering a card

\* <WorkflowCard {...props} /> of components/workflow-card.tsx is rendered
RenderWorkflowCard ==
  /\ \E props \in CardProps :
       /\ cardProps' = props
       /\ cardTree' = <<WorkflowCard(props)>>
  /\ UNCHANGED <<limiterVars, postVars, mwVars>>

\* <WorkflowCard {...props} /> of the card module with `priority` is rendered
RenderWorkflowCardWithPriority ==
  /\ \E props \in CardPropsWithPriority :
       /\ cardProps' = props
       /\ cardTree' = <<WorkflowCardWithPriority(props)>>
  /\ UNCHANGED <<limiterVars, postVars, mwVars>>

NextCard == RenderWorkflowCard \/ RenderWorkflowCardWithPriority

SpecCard == Init /\ [][NextCard]_vars

\* the elements and texts of a rendered tree, in document order
RECURSIVE Flatten(_)
RECURSIVE FlattenAll(_)
Flatten(node) == <<node>> \o FlattenAll(node.children)
FlattenAll(nodes) ==
  IF nodes = <<>> THEN <<>> ELSE Flatten(Head(nodes)) \o FlattenAll(Tail(nodes))

\* the elements of the given type in the rendered card
Rendered(type) == SelectSeq(FlattenAll(cardTree), LAMBDA n : n.type = type)

\* the tree holds the text str: always for '' (an empty text child renders
\* nothing), otherwise as a text child
HasText(str) == str = "" \/ \E i \in DOMAIN Rendered("#text") : Rendered("#text")[i].text = str

\* C21 (WorkflowCard rendering): the rendered card contains the title text,
\* the description text, one image whose alt text is '<title> workflow
\* diagram' and is one link to /recipes/<slug>; it holds a badge, with the tag
\* as its text, exactly when a non-empty tag was supplied.
C21_WorkflowCardRendering ==
  cardTree # <<>> =>
    /\ HasText(cardProps.title)
    /\ HasText(cardProps.description)
    /\ Len(Rendered("Image")) = 1
    /\ Rendered("Image")[1].attrs.alt = cardProps.title \o " workflow diagram"
    /\ Len(Rendered("Link")) = 1
    /\ Rendered("Link")[1].attrs.href = "/recipes/" \o cardProps.slug
    /\ cardTree[1].type = "Link"
    /\ IF cardProps.tag.defined /\ cardProps.tag.value # ""
         THEN /\ Len(Rendered("Badge")) = 1
              /\ Rendered("Badge")[1].children = <<Text(cardProps.tag.value)>>
         ELSE Len(Rendered("Badge")) = 0

\* a card rendered with the empty tag: no badge, the other parts in place
C21_Witness ==
  /\ cardTree # <<>>
  /\ cardProps.tag = Some("")
  /\ cardProps.title = "Test Workflow"
  /\ cardProps.slug = "test-workflow"
  /\ Len(Rendered("Badge")) = 0
  /\ Rendered("Image")[1].attrs.alt = "Test Workflow workflow diagram"
  /\ cardTree[1].attrs.href = "/recipes/test-workflow"

\* C22 (429 if and only if denied), as stated: a finished request has status
\* 429 exactly when the admission check denied it.  The catch block decides
\* by the message of the error alone, so this fails for an admitted request
\* whose upstream call fails with the message 'Too many requests'.
C22_AsStated ==
  \A r \in Req : pc[r] = "done" => (status[r] = 429 <=> r \in DeniedReqs)

\* an admitted request, forwarded to the upstream, that was answered 429
C22_Witness ==
  \E r \in Req :
    /\ pc[r] = "done" /\ r \in AdmittedReqs /\ rateResolved[r] = 1
    /\ upstreamCalls[r] = 1 /\ route[r] = "sdk"
    /\ error[r] = [kind |-> "Error", message |-> "Too many requests"]
    /\ status[r] = 429
    /\ respBody[r] = "Rate limit exceeded. Please try again later."

\* ======================================================================
\* Further properties of the limiter
\* ======================================================================
\* the recorded checks read non-decreasing values of Date.now()
NonDecreasingReadings == \A i, j \in DOMAIN log : i <= j => log[i].now <= log[j].now
\* the admitted checks whose timestamp lies in (t - WINDOW_SIZE, t]
AdmittedWithin(t) ==
  {i \in DOMAIN log : ~log[i].limited /\ t - WINDOW_SIZE < log[i].now /\ log[i].now <= t}

\* C23 (sliding-window bound): after any sequence of checks with
\* non-decreasing clock readings, for every instant t at most MAX_REQUESTS
\* admitted checks have their timestamp in (t - WINDOW_SIZE, t], wherever
\* the interval lies.
C23_SlidingWindowBound ==
  NonDecreasingReadings =>
    \A t \in 0..(MaxClock + WINDOW_SIZE) : Cardinality(AdmittedWithin(t)) <= MAX_REQUESTS

\* more than MAX_REQUESTS checks were admitted over time, one was denied, and
\* an interval that starts after the first admission is full
C23_Witness ==
  /\ NonDecreasingReadings
  /\ Cardinality({i \in DOMAIN log : ~log[i].limited}) > MAX_REQUESTS
  /\ \E i \in DOMAIN log : log[i].limited
  /\ \E t \in 0..MaxClock :
       /\ t - WINDOW_SIZE >= log[1].now
       /\ Cardinality(AdmittedWithin(t)) = MAX_REQUESTS

\* the entries a check kept of the window it found: its result without the
\* timestamp it appended itself
KeptOf(e) == SubSeq(e.after, 1, Len(e.after) - (IF e.limited THEN 0 ELSE 1))
\* the last n admissions before check i were all made at time t
LastAdmittedAt(i, n, t) ==
  \E J \in SUBSET AdmittedBefore(i) :
    /\ Cardinality(J) = n
    /\ \A j \in J : log[j].now = t
    /\ \A k \in AdmittedBefore(i) \ J : \A j \in J : k < j

\* C24 (strict window boundary): a check at `now` counts an entry ts exactly
\* when now - ts < WINDOW_SIZE, so that an entry exactly WINDOW_SIZE old is
\* pruned; and when the latest MAX_REQUESTS admissions were all made at t0, a
\* check at exactly t0 + WINDOW_SIZE is admitted.
C24_StrictBoundary ==
  \A i \in DOMAIN log :
    LET e == log[i]
    IN  /\ \A x \in Range(e.before) :
             IF e.now - x < WINDOW_SIZE
               THEN Count(KeptOf(e), x) = Count(e.before, x)
               ELSE x \notin Range(KeptOf(e))
        /\ Range(KeptOf(e)) \subseteq Range(e.before)
        /\ e.limited <=>
             Cardinality({k \in DOMAIN e.before : e.now - e.before[k] < WINDOW_SIZE})
               >= MAX_REQUESTS
        /\ \A t0 \in 0..MaxClock :
             (LastAdmittedAt(i, MAX_REQUESTS, t0) /\ e.now = t0 + WINDOW_SIZE) => ~e.limited

\* MAX_REQUESTS checks were admitted at one instant and the next check, made
\* exactly WINDOW_SIZE later, found the window full of them and was admitted
C24_Witness ==
  \E i \in DOMAIN log : \E t0 \in 0..MaxClock :
    /\ LastAdmittedAt(i, MAX_REQUESTS, t0)
    /\ log[i].now = t0 + WINDOW_SIZE
    /\ log[i].before = [k \in 1..MAX_REQUESTS |-> t0]
    /\ ~log[i].limited
    /\ log[i].after = <<log[i].now>>

\* the oldest timestamp of a window
Oldest(ts) == CHOOSE x \in Range(ts) : \A y \in Range(ts) : x <= y

\* C25 (denied retries never postpone recovery): when the latest admission
\* left the window full, with oldest timestamp t_old, then however many
\* checks were denied since, a check made at a time >= t_old + WINDOW_SIZE
\* is admitted.
C25_RetriesDoNotExtendLockout ==
  \A i \in DOMAIN log :
    AdmittedBefore(i) # {} =>
      LET full == log[LastAdmission(i)].after
      IN  (Len(full) = MAX_REQUESTS /\ log[i].now >= Oldest(full) + WINDOW_SIZE)
            => ~log[i].limited

\* the window was filled at two instants, a retry was denied, and the check
\* made when the oldest entry was exactly one window old was admitted
C25_Witness ==
  \E i \in DOMAIN log :
    /\ i > 2 /\ log[i - 1].limited /\ ~log[i - 2].limited
    /\ Len(log[i - 2].after) = MAX_REQUESTS
    /\ log[i - 2].after[1] < log[i - 2].after[2]
    /\ log[i - 1].now > log[i - 2].now
    /\ log[i].now = log[i - 2].after[1] + WINDOW_SIZE
    /\ ~log[i].limited

\* ======================================================================
\* Further properties of the POST handlers
\* ======================================================================
\* some handler's filter has run at a time at which the entry x had expired
PrunedBySomeCheck(x) ==
  \E q \in Req : pc[q] \notin {"idle", "readNow", "filter"} /\ now[q] - x >= WINDOW_SIZE
\* the body is JSON that the schema rejects
InvalidJson(b) == b.json /\ ~SchemaAccepts(b)

\* C26 (admission precedes parsing and validation): the body is read,
\* validated and forwarded only after the admission check has admitted the
\* request; a denied request is answered 429 whatever its body is, without
\* its body being read; an admitted request with an invalid body is answered
\* 400, never reaches the upstream, and its timestamp occupies a slot of the
\* window like that of any admitted request, until a later check prunes it.
C26_AdmissionFirst ==
  \A r \in Req :
    /\ (bodyRead[r] \/ upstreamCalls[r] > 0 \/ status[r] \in {200, 400}) =>
         r \in AdmittedReqs /\ rateResolved[r] = 1 /\ bodyRead[r]
    /\ (pc[r] = "done" /\ r \in DeniedReqs) =>
         status[r] = 429 /\ ~bodyRead[r] /\ upstreamCalls[r] = 0
    /\ (pc[r] = "done" /\ r \in AdmittedReqs /\ InvalidJson(body[r])) =>
         /\ status[r] = 400
         /\ upstreamCalls[r] = 0
         /\ PrunedBySomeCheck(now[r]) \/
              Count(timestamps, now[r]) = Cardinality({q \in AdmittedReqs : now[q] = now[r]})

\* two requests with invalid bodies were admitted and answered 400; they
\* filled the window, and a request whose body is not even JSON was denied
\* with 429
C26_Witness ==
  /\ \A r \in {1, 2} :
       pc[r] = "done" /\ r \in AdmittedReqs /\ body[r] = InvalidBody /\ status[r] = 400
  /\ pc[3] = "done" /\ 3 \in DeniedReqs /\ body[3] = MalformedBody /\ status[3] = 429
  /\ timestamps = <<now[1], now[2]>>

\* C27 (the admission stage always settles): when the handler starts to
\* await Promise.all, the promise of rateLimiter is settled already,
\* fulfilled for an admitted and rejected with 'Too many requests' for a
\* denied request, and Promise.all is rejected with that error on denial
\* although speedLimiter resolved; no promise of the stage is ever pending,
\* and every handler that awaits the gates goes on, to reading the body or to
\* its answer.
C27_AdmissionStageSettles ==
  /\ [][\A r \in Req :
          Steps(r, {"settle"}) =>
            /\ pc'[r] = "awaitGates"
            /\ PromiseOf(rateLimiter(limited[r])).state =
                 (IF limited[r] THEN "rejected" ELSE "fulfilled")
            /\ gate'[r] = (IF limited[r]
                             THEN [state |-> "rejected", reason |-> "Too many requests"]
                             ELSE [state |-> "fulfilled", reason |-> ""])
            /\ speedResolved'[r] = 1]_vars
  /\ [](\A r \in Req : pc[r] = "awaitGates" => gate[r].state \in {"fulfilled", "rejected"})
  /\ \A r \in Req : (pc[r] = "awaitGates") ~> (pc[r] \in {"awaitBody", "done"})

\* a denied request waits at Promise.all, which is rejected although
\* speedLimiter resolved, while an admitted request waits at a fulfilled one
C27_Witness ==
  \E r, q \in Req :
    /\ pc[r] = "awaitGates" /\ limited[r] /\ speedResolved[r] = 1
    /\ gate[r] = [state |-> "rejected", reason |-> "Too many requests"]
    /\ pc[q] = "awaitGates" /\ ~limited[q] /\ gate[q].state = "fulfilled"

\* the body of the 500 response
GenericError == "An error occurred while processing your request"

\* every finished request has one response, whose status follows from the
\* error the handler caught: none 200, a ZodError 400, the message
\* 'Too many requests' 429, anything else 500; an admitted request whose
\* body is not JSON gets 500 with the generic body
TotalMapping ==
  \A r \in Req :
    /\ pc[r] # "done" => status[r] = 0 /\ respBody[r] = "none"
    /\ pc[r] = "done" =>
         /\ status[r] \in {200, 400, 429, 500}
         /\ status[r] = 200 <=> error[r] = NoError
         /\ status[r] = 400 <=> error[r].kind = "ZodError"
         /\ status[r] = 429 <=>
              error[r].kind # "ZodError" /\ error[r].message = "Too many requests"
         /\ status[r] = 500 => respBody[r] = GenericError
         /\ (r \in AdmittedReqs /\ ~body[r].json) =>
              status[r] = 500 /\ respBody[r] = GenericError

\* C28 (total error mapping), as stated: the mapping above, and an admitted
\* request whose upstream call throws gets 500 with the generic body.  The
\* last part fails when the upstream's error carries the message
\* 'Too many requests'.
C28_AsStated ==
  /\ TotalMapping
  /\ \A r \in Req :
       (pc[r] = "done" /\ upstreamCalls[r] > 0 /\ error[r] # NoError) =>
         status[r] = 500 /\ respBody[r] = GenericError

\* a request whose body was not JSON got the generic 500, and a request
\* whose upstream call threw got 429 instead
C28_Witness ==
  \E r, q \in Req :
    /\ pc[r] = "done" /\ r \in AdmittedReqs /\ ~body[r].json
    /\ status[r] = 500 /\ respBody[r] = GenericError
    /\ pc[q] = "done" /\ q \in AdmittedReqs /\ upstreamCalls[q] = 1
    /\ error[q].message = "Too many requests" /\ status[q] = 429

\* ---------------------------------------------------- running a middleware

\* runMiddleware(req, res, fn) is called: the promise is created and its
\* executor calls fn
RunMiddleware ==
  /\ mwPc = "idle"
  /\ mwPc' = "executing"
  /\ mwPromise' = PendingPromise
  /\ UNCHANGED <<mwResults, mwThrown>>
  /\ UNCHANGED <<limiterVars, postVars, cardVars>>

\* fn invokes the callback with some value, while it executes or later
InvokeCallback ==
  /\ mwPc \in {"executing", "returned"}
  /\ Len(mwResults) < MaxCallbacks
  /\ \E result \in Results :
       /\ mwPromise' = Callback(mwPromise, result)
       /\ mwResults' = Append(mwResults, result)
  /\ UNCHANGED <<mwPc, mwThrown>>
  /\ UNCHANGED <<limiterVars, postVars, cardVars>>

\* fn returns
FnReturns ==
  /\ mwPc = "executing"
  /\ mwPc' = "returned"
  /\ UNCHANGED <<mwPromise, mwResults, mwThrown>>
  /\ UNCHANGED <<limiterVars, postVars, cardVars>>

\* fn throws: the throw leaves the executor, which rejects the promise
FnThrows ==
  /\ mwPc = "executing"
  /\ \E v \in Throwables :
       /\ mwPromise' = Reject(mwPromise, v)
       /\ mwThrown' = [thrown |-> TRUE, value |-> v, after |-> Len(mwResults)]
  /\ mwPc' = "thrown"
  /\ UNCHANGED mwResults
  /\ UNCHANGED <<limiterVars, postVars, cardVars>>

\* the thenable the promise was resolved with settles, and the promise with it
ThenableSettles ==
  /\ mwPromise.state = "pending"
  /\ mwPromise.following.kind = "thenable"
  /\ mwPromise.following.outcome # "never"
  /\ mwPromise' = [mwPromise EXCEPT !.state = mwPromise.following.outcome,
                                    !.value = ResultOf(mwPromise.following)]
  /\ UNCHANGED <<mwPc, mwResults, mwThrown>>
  /\ UNCHANGED <<limiterVars, postVars, cardVars>>

NextMw == RunMiddleware \/ InvokeCallback \/ FnReturns \/ FnThrows \/ ThenableSettles

SpecMw == Init /\ [][NextMw]_vars

\* fn threw before it ever invoked the callback
ThrewFirst == mwThrown.thrown /\ mwThrown.after = 0

\* C29 as stated (runMiddleware settles according to the callback argument):
\* the promise is pending as long as the callback was not invoked; once it
\* was, the promise is rejected with the first value passed when that value
\* is an Error and fulfilled with it otherwise.
C29_AsStated ==
  IF mwResults = <<>>
    THEN mwPromise.state = "pending"
    ELSE IF IsError(mwResults[1])
           THEN mwPromise.state = "rejected" /\ mwPromise.value = mwResults[1]
           ELSE mwPromise.state = "fulfilled" /\ mwPromise.value = mwResults[1]

\* C29 as amended: what settles the promise is the first of the callback's
\* first invocation and a throw of fn.  A throw before any invocation
\* rejects it with the thrown value.  A first invocation with an Error
\* rejects it with that Error; with a thenable, the promise follows the
\* thenable (pending until it settles, then settled like it); with any other
\* value it is fulfilled with that value.  With neither, it stays pending.
\* Nothing that happens later has any effect.
C29_SettlesByFirstOutcome ==
  IF ThrewFirst
    THEN mwPromise.state = "rejected" /\ mwPromise.value = mwThrown.value
  ELSE IF mwResults = <<>>
    THEN mwPromise.state = "pending"
  ELSE IF IsError(mwResults[1])
    THEN mwPromise.state = "rejected" /\ mwPromise.value = mwResults[1]
  ELSE IF mwResults[1].kind = "thenable"
    THEN \/ mwPromise.state = "pending"
         \/ /\ mwPromise.state = mwResults[1].outcome
            /\ mwPromise.value = ResultOf(mwResults[1])
  ELSE mwPromise.state = "fulfilled" /\ mwPromise.value = mwResults[1]

\* the callback was invoked with an Error and then with another value, and
\* fn threw afterwards: the promise is rejected with the Error
C29_Witness ==
  /\ Len(mwResults) = 2
  /\ mwResults[1] = Value("error", "Error: A")
  /\ mwResults[2] = Value("string", "route")
  /\ mwThrown.thrown /\ mwThrown.after = 2
  /\ mwPromise.state = "rejected" /\ mwPromise.value = Value("error", "Error: A")

====
